---- MODULE Spec2Model ----
(***************************************************************************)
(* Model of the async chat server (src/app/server.py): the cooperative     *)
(* scheduler (ready queue, read/write waiting tables keyed by socket), the *)
(* accept / registration / message-loop generators, the command handlers   *)
(* and the client and chat registries.                                     *)
(*                                                                         *)
(* A client is identified by the order of its accept (1, 2, ...); its      *)
(* socket carries the same number and the listening socket is 0.  A step   *)
(* of the model is one iteration of the event loop body: either the        *)
(* select() poll, or the resumption of the head of the ready queue up to   *)
(* its next yield.                                                         *)
(***************************************************************************)
EXTENDS Integers, Sequences, FiniteSets, TLC

\* ---------------------------------------------------------------- bounds
\* Client objects ever created, and the names there are
MaxClients == 3
\* connections the listening socket accepts
MaxSessions == 2
\* chats in the registry at one time
MaxChats == 2
\* sockets one select() call reports ready
MaxReady == 2

\* ------------------------------------------------------------- constants
Names == <<"a", "b", "c", "d">>
\* Client.username before set_username (Python None)
NoName == "<None>"
ClientIds == 1 .. MaxClients
NameSet == {Names[k] : k \in ClientIds}
\* Server.__socket
ListenSocket == 0
\* TypeTask.READ / TypeTask.WRITE
READ == "READ"
WRITE == "WRITE"
\* Commands enum: value -> number of declared args
CommandArity ==
    [clients |-> 0, connect |-> 1, disconnect |-> 0, dialog |-> 0,
     approve |-> 1, decline |-> 1, requests |-> 0, help |-> 0]
CommandNames == DOMAIN CommandArity

\* ------------------------------------------------------------------ tasks
\* generator objects: __handle_client_connection, __handle_register_client(c),
\* __handle_client_message(c)
AcceptTask == [kind |-> "accept", client |-> 0]
RegisterTask(c) == [kind |-> "register", client |-> c]
MessageTask(c) == [kind |-> "message", client |-> c]
Tasks == {AcceptTask} \cup {RegisterTask(c) : c \in ClientIds}
                      \cup {MessageTask(c) : c \in ClientIds}

\* a message handed to __send_message_to_client: kind is its fixed text, args
\* the names (and chat text) the f-string puts into it
Msg(kind, args) == [kind |-> kind, args |-> args]
Send(c, m) == [to |-> c, msg |-> m]
NoMsg == [to |-> 0, msg |-> Msg("", <<>>)]

\* a received line: chat text (or a name), or the tokens of a command
TextLine(text, pad) == [type |-> "text", tokens |-> <<text>>, pad |-> pad]
CommandLine(tokens) == [type |-> "command", tokens |-> tokens, pad |-> FALSE]
Recv(c, line) == [from |-> c, line |-> line]
NoLine == [from |-> 0, line |-> TextLine("", FALSE)]

\* the frame of a generator that has not been created / has returned or
\* raised / was dropped from a waiting table while suspended (no reference
\* to it is left)
NoFrame == [pc |-> "none", sends |-> <<>>, then |-> "stop"]
DoneFrame == [pc |-> "done", sends |-> <<>>, then |-> "stop"]
DroppedFrame == [pc |-> "dropped", sends |-> <<>>, then |-> "stop"]
NewFrame(then) == [pc |-> "new", sends |-> <<>>, then |-> then]

VARIABLES
    status,     \* "constructed" | "running" | "crashed" (uncaught exception) | "exited"
    clients,    \* Server.__clients
    username,   \* Client.username of every Client object
    closed,     \* clients whose socket object has been closed
    accepted,   \* number of connections accepted so far
    chats,      \* Server.__chats: records [id, initiator, target, is_approved]
    ready,      \* Server.__ready_tasks_queue
    waitRead,   \* Server.__tasks_waiting_for_read: socket -> task
    waitWrite,  \* Server.__tasks_waiting_for_write: socket -> task
    frames,     \* suspended state of every generator
    sent,       \* what the last step wrote to a socket (NoMsg if nothing)
    received    \* the line the last step received (NoLine if none)

vars == <<status, clients, username, closed, accepted, chats, ready,
          waitRead, waitWrite, frames, sent, received>>

registries == <<clients, username, chats>>

\* ---------------------------------------------------------------- helpers
\* dict.pop(key, None)
Pop(table, key) == [s \in (DOMAIN table) \ {key} |-> table[s]]
\* dict[key] = task
Install(table, key, task) ==
    [s \in (DOMAIN table) \cup {key} |-> IF s = key THEN task ELSE table[s]]
EmptyTable == [s \in {} |-> AcceptTask]
\* the task a table loses when key is popped or overwritten by task
Lost(table, key, task) ==
    IF key \in DOMAIN table /\ table[key] # task THEN {table[key]} ELSE {}

\* all orders in which the members of S can be listed
Orders(S) ==
    {q \in [1 .. Cardinality(S) -> S] :
        \A i, j \in 1 .. Cardinality(S) : i # j => q[i] # q[j]}

\* Chat.members
Members(chat) == {chat.initiator, chat.target}
\* Chat.get_second_member
SecondMember(chat, c) == IF c = chat.initiator THEN chat.target ELSE chat.initiator

\* ------------------------------------------------------- client registry
\* Server.__get_client_by_username: next() over the clients with that name
GetClientByUsername(name) == {c \in clients : username[c] = name}

\* mutant: the name is looked up among the registered names of the clients
\* that are gone
UsernameIsUsedAmongClosed(name) == name \in {username[c] : c \in closed}

\* mutant: every name passes for free
UsernameIsUsedNever(name) == name \in {}

\* Server.__handle_register_client, line 134:
\* username in [client.username for client in self.__clients]
UsernameIsUsed(name) == name \in {username[c] : c \in clients}

\* str.strip() of a received line: a raw line is its text, with surrounding
\* whitespace when pad is set; strip() leaves the text
Strip(raw) == raw.tokens[1]

\* --------------------------------------------------------- chat registry
\* Chat(initiator, target): a fresh object, is_approved = False.  The id
\* (uuid4) tells the chats of the registry apart and orders nothing; here
\* the id of a chat is its rank by creation among the chats of the registry.
NewChat(i, t) ==
    [id |-> Cardinality(chats) + 1,
     initiator |-> i, target |-> t, is_approved |-> FALSE]

\* the ids of the chats left in the registry, as ranks again
Rank(cs) ==
    {[chat EXCEPT !.id = Cardinality({x \in cs : x.id <= chat.id})] : chat \in cs}

\* Server.__get_active_chat_by_client: next() over these
GetActiveChatByClient(c) ==
    {chat \in chats : c \in Members(chat) /\ chat.is_approved}

\* mutant: the request is looked up in either direction
GetInactiveChatByMembers(i, t) ==
    {chat \in chats : Members(chat) = {i, t} /\ ~chat.is_approved}

\* Server.__get_inactive_chat_by_clients: next() over these
GetInactiveChatByClients(i, t) ==
    {chat \in chats : chat.target = t /\ chat.initiator = i /\ ~chat.is_approved}

\* Server.__get_inactive_chats_by_client (filters on the target only)
GetInactiveChatsByClient(c) == {chat \in chats : chat.target = c}

\* Server.__delete_chat
DeleteChat(cs, chat) == Rank(cs \ {chat})

\* mutant: deletes only the chats the client initiated
DeleteChatsByInitiator(cs, c) == Rank({chat \in cs : c # chat.initiator})

\* Server.__delete_chats_by_client
DeleteChatsByClient(cs, c) == Rank({chat \in cs : c \notin Members(chat)})

\* mutant: approves every chat of the same initiator and target
ApproveAllOfPair(cs, chat) ==
    {IF x.initiator = chat.initiator /\ x.target = chat.target
     THEN [x EXCEPT !.is_approved = TRUE] ELSE x : x \in cs}

\* Chat.approve on a chat of the registry
Approve(cs, chat) == (cs \ {chat}) \cup {[chat EXCEPT !.is_approved = TRUE]}

\* ------------------------------------------------------ command handlers
\* What a handler does between its call and its first yield: the registry it
\* leaves and the messages it goes on to send, in order.  A handler that
\* picks with next() from a set has one outcome per member.
Outcome(cs, sends) ==
    [chats |-> cs, sends |-> sends, crash |-> FALSE]
\* an exception no caller catches (it leaves __run_task and the event loop)
Crash == [chats |-> chats, sends |-> <<>>, crash |-> TRUE]
Reply(c, m) == {Outcome(chats, <<Send(c, m)>>)}

\* Server.__execute_help_command: the one message it sends
ExecuteHelpSends(c) == <<Send(c, Msg("Avaliable commands:", <<>>))>>
ExecuteHelp(c) == {Outcome(chats, ExecuteHelpSends(c))}

\* mutant: the chat is created before the caller's active chat is looked up
ExecuteConnectAddsFirst(c, name) ==
    IF username[c] = name
    THEN Reply(c, Msg("Client is trying to connect to itself.", <<>>))
    ELSE IF GetActiveChatByClient(c) # {}
    THEN {Outcome(chats \cup {NewChat(c, t)},
                  <<Send(c, Msg("You already in chat with", <<username[SecondMember(chat, c)]>>))>>) :
             chat \in GetActiveChatByClient(c), t \in GetClientByUsername(name)}
    ELSE IF GetClientByUsername(name) = {}
    THEN Reply(c, Msg("Client may be disconnected.", <<>>))
    ELSE {Outcome(chats \cup {NewChat(c, t)},
                  <<Send(t, Msg("wants to start a chat with you.", <<username[c]>>))>>) :
             t \in GetClientByUsername(name)}

\* mutant: the chat is created with the named client as its initiator
ExecuteConnectFromTarget(c, name) ==
    IF username[c] = name
    THEN Reply(c, Msg("Client is trying to connect to itself.", <<>>))
    ELSE IF GetActiveChatByClient(c) # {}
    THEN UNION {Reply(c, Msg("You already in chat with", <<username[SecondMember(chat, c)]>>)) :
                   chat \in GetActiveChatByClient(c)}
    ELSE IF GetClientByUsername(name) = {}
    THEN Reply(c, Msg("Client may be disconnected.", <<>>))
    ELSE {Outcome(chats \cup {NewChat(t, c)},
                  <<Send(t, Msg("wants to start a chat with you.", <<username[c]>>))>>) :
             t \in GetClientByUsername(name)}

\* mutant: the caller's own name is looked up like any other
ExecuteConnectNoSelfCheck(c, name) ==
    IF GetActiveChatByClient(c) # {}
    THEN UNION {Reply(c, Msg("You already in chat with", <<username[SecondMember(chat, c)]>>)) :
                   chat \in GetActiveChatByClient(c)}
    ELSE IF GetClientByUsername(name) = {}
    THEN Reply(c, Msg("Client may be disconnected.", <<>>))
    ELSE {Outcome(chats \cup {NewChat(c, t)},
                  <<Send(t, Msg("wants to start a chat with you.", <<username[c]>>))>>) :
             t \in GetClientByUsername(name)}

\* Server.__execute_connect_command
ExecuteConnect(c, name) ==
    IF username[c] = name
    THEN Reply(c, Msg("Client is trying to connect to itself.", <<>>))
    ELSE IF GetActiveChatByClient(c) # {}
    THEN UNION {Reply(c, Msg("You already in chat with", <<username[SecondMember(chat, c)]>>)) :
                   chat \in GetActiveChatByClient(c)}
    ELSE IF GetClientByUsername(name) = {}
    THEN Reply(c, Msg("Client may be disconnected.", <<>>))
    ELSE {Outcome(chats \cup {NewChat(c, t)},
                  <<Send(t, Msg("wants to start a chat with you.", <<username[c]>>))>>) :
             t \in GetClientByUsername(name)}

\* Server.__execute_list_clients_command
ExecuteListClients(c) ==
    LET others == {username[x] : x \in {y \in clients :
                       username[y] # NoName /\ username[y] # username[c]}}
    IN  IF others = {}
        THEN Reply(c, Msg("No available clients.", <<>>))
        ELSE UNION {Reply(c, Msg("clients", q)) : q \in Orders(others)}

\* mutant: the target is notified before the initiator
ExecuteDisconnectTargetFirst(c) ==
    IF GetActiveChatByClient(c) = {}
    THEN Reply(c, Msg("You have no active chat now.", <<>>))
    ELSE {Outcome(DeleteChat(chats, chat),
                  <<Send(chat.target, Msg("Chat ended.", <<username[chat.initiator]>>)),
                    Send(chat.initiator, Msg("Chat ended.", <<username[chat.target]>>))>>) :
             chat \in GetActiveChatByClient(c)}

\* Server.__execute_disconnect_command
ExecuteDisconnect(c) ==
    IF GetActiveChatByClient(c) = {}
    THEN Reply(c, Msg("You have no active chat now.", <<>>))
    ELSE {Outcome(DeleteChat(chats, chat),
                  <<Send(chat.initiator, Msg("Chat ended.", <<username[chat.target]>>)),
                    Send(chat.target, Msg("Chat ended.", <<username[chat.initiator]>>))>>) :
             chat \in GetActiveChatByClient(c)}

\* Server.__execute_chat_info_command
ExecuteChatInfo(c) ==
    IF GetActiveChatByClient(c) = {}
    THEN Reply(c, Msg("You do not have active chats.", <<>>))
    ELSE UNION {Reply(c, Msg("You have active chat with", <<username[SecondMember(chat, c)]>>)) :
                   chat \in GetActiveChatByClient(c)}

\* mutant: a request whose initiator is busy is dropped with the refusal
ExecuteApproveDropsBusy(c, name) ==
    IF username[c] = name
    THEN Reply(c, Msg("You are trying to approve a chat with yourself.", <<>>))
    ELSE IF GetActiveChatByClient(c) # {}
    THEN UNION {Reply(c, Msg("You already has an active chat with",
                             <<username[SecondMember(chat, c)]>>)) :
                   chat \in GetActiveChatByClient(c)}
    ELSE IF GetClientByUsername(name) = {}
    THEN Reply(c, Msg("Chat initiator may be disconnected.", <<>>))
    ELSE UNION {
        IF GetActiveChatByClient(i) # {}
        THEN {Outcome(Rank(chats \ GetInactiveChatByClients(i, c)),
                      <<Send(c, Msg("already has an active chat.", <<username[i]>>))>>)}
        ELSE IF GetInactiveChatByClients(i, c) # {}
        THEN {Outcome(Approve(chats, chat),
                      <<Send(chat.initiator,
                             Msg("You started a chat with", <<username[chat.target]>>)),
                        Send(chat.target,
                             Msg("You started a chat with", <<username[chat.initiator]>>))>>) :
                 chat \in GetInactiveChatByClients(i, c)}
        ELSE Reply(c, Msg("You have no chat request from", <<name>>))
        : i \in GetClientByUsername(name)}

\* Server.__execute_approve_chat_command
ExecuteApprove(c, name) ==
    IF username[c] = name
    THEN Reply(c, Msg("You are trying to approve a chat with yourself.", <<>>))
    ELSE IF GetActiveChatByClient(c) # {}
    THEN UNION {Reply(c, Msg("You already has an active chat with",
                             <<username[SecondMember(chat, c)]>>)) :
                   chat \in GetActiveChatByClient(c)}
    ELSE IF GetClientByUsername(name) = {}
    THEN Reply(c, Msg("Chat initiator may be disconnected.", <<>>))
    ELSE UNION {
        IF GetActiveChatByClient(i) # {}
        THEN Reply(c, Msg("already has an active chat.", <<username[i]>>))
        ELSE IF GetInactiveChatByClients(i, c) # {}
        THEN {Outcome(Approve(chats, chat),
                      <<Send(chat.initiator,
                             Msg("You started a chat with", <<username[chat.target]>>)),
                        Send(chat.target,
                             Msg("You started a chat with", <<username[chat.initiator]>>))>>) :
                 chat \in GetInactiveChatByClients(i, c)}
        ELSE Reply(c, Msg("You have no chat request from", <<name>>))
        : i \in GetClientByUsername(name)}

\* Server.__execute_decline_chat_command
ExecuteDecline(c, name) ==
    IF username[c] = name
    THEN Reply(c, Msg("You are trying to decline a chat with yourself.", <<>>))
    ELSE IF GetClientByUsername(name) = {}
    THEN Reply(c, Msg("Chat initiator may be disconnected.", <<>>))
    ELSE UNION {
        IF GetInactiveChatByClients(i, c) # {}
        THEN {Outcome(DeleteChat(chats, chat),
                      <<Send(chat.target,
                             Msg("You declined a chat request from", <<username[chat.initiator]>>)),
                        Send(chat.initiator,
                             Msg("declined your chat request.", <<username[chat.target]>>))>>) :
                 chat \in GetInactiveChatByClients(i, c)}
        ELSE Reply(c, Msg("You have no chat request from", <<name>>))
        : i \in GetClientByUsername(name)}

\* Server.__execue_requests_command: the chats are listed in the iteration
\* order of the set
ExecuteRequests(c) ==
    IF GetInactiveChatsByClient(c) = {}
    THEN Reply(c, Msg("You not have chat requests", <<>>))
    ELSE UNION {Reply(c, Msg("Chat requests from:",
                             [k \in 1 .. Len(q) |-> username[q[k].initiator]])) :
                   q \in Orders(GetInactiveChatsByClient(c))}

\* self.__commands[parsed_command] called with the given arguments; a call
\* with the wrong number of arguments raises TypeError
CallHandler(command, c, args) ==
    CASE command = "clients" /\ args = <<>> -> ExecuteListClients(c)
      [] command = "connect" /\ Len(args) = 1 -> ExecuteConnect(c, args[1])
      [] command = "disconnect" /\ args = <<>> -> ExecuteDisconnect(c)
      [] command = "dialog" /\ args = <<>> -> ExecuteChatInfo(c)
      [] command = "approve" /\ Len(args) = 1 -> ExecuteApprove(c, args[1])
      [] command = "decline" /\ Len(args) = 1 -> ExecuteDecline(c, args[1])
      [] command = "requests" /\ args = <<>> -> ExecuteRequests(c)
      [] command = "help" /\ args = <<>> -> ExecuteHelp(c)
      [] OTHER -> {Crash}

\* mutant: a name that is no command is taken for help
HandleClientCommandDefaultsToHelp(c, raw_command, command_args) ==
    IF raw_command \notin CommandNames
    THEN ExecuteHelp(c)
    ELSE IF CommandArity[raw_command] > 0 /\ command_args # <<>>
            /\ Len(command_args) = CommandArity[raw_command]
         THEN CallHandler(raw_command, c, command_args)
         ELSE CallHandler(raw_command, c, <<>>)

\* Server.__handle_client_command
HandleClientCommand(c, raw_command, command_args) ==
    IF raw_command \notin CommandNames
    THEN Reply(c, Msg("Unknown command:", <<raw_command>>))
    ELSE IF CommandArity[raw_command] > 0 /\ command_args # <<>>
            /\ Len(command_args) = CommandArity[raw_command]
         THEN CallHandler(raw_command, c, command_args)
         ELSE CallHandler(raw_command, c, <<>>)

\* Server.__handle_chat_message
HandleChatMessage(c, text) ==
    {Outcome(chats,
             <<Send(SecondMember(chat, c), Msg("chat", <<username[c], text>>))>>) :
        chat \in GetActiveChatByClient(c)}

\* Server.__handle_client_message, lines 110-118: one received line.  A
\* command line is the list of its whitespace-separated tokens after the
\* prefix; unpacking an empty list raises ValueError.
HandleLine(c, line) ==
    IF line.type = "command"
    THEN IF line.tokens = <<>>
         THEN {Crash}
         ELSE HandleClientCommand(c, Head(line.tokens), Tail(line.tokens))
    ELSE IF GetActiveChatByClient(c) # {}
         THEN HandleChatMessage(c, Strip(line))
         ELSE Reply(c, Msg("You are not consistent with any chat.", <<>>))

\* ------------------------------------------------------------ disconnect
\* Server.__delete_client
DeleteClient(cl, c) == cl \ {c}

\* Server.__delete_tasks_by_client, on one waiting table
DeleteTasksByClient(table, c) == Pop(table, c)

\* Server.__disconnect_client: what it leaves of the registries, the waiting
\* tables and the set of closed sockets, and the tasks the tables lost
DisconnectClient(c) ==
    [chats |-> DeleteChatsByClient(chats, c),
     clients |-> DeleteClient(clients, c),
     waitRead |-> DeleteTasksByClient(waitRead, c),
     waitWrite |-> DeleteTasksByClient(waitWrite, c),
     closed |-> closed \cup {c},
     lost |-> {waitRead[s] : s \in (DOMAIN waitRead) \ DOMAIN DeleteTasksByClient(waitRead, c)}
              \cup {waitWrite[s] : s \in (DOMAIN waitWrite) \ DOMAIN DeleteTasksByClient(waitWrite, c)}]
\* no disconnect: everything as it is
Connected ==
    [chats |-> chats, clients |-> clients, waitRead |-> waitRead,
     waitWrite |-> waitWrite, closed |-> closed, lost |-> {}]

\* ----------------------------------------------------------------- inputs
\* socket.recv returning b"" / raising ConnectionResetError
Failures == {"eof", "reset"}
\* what an unregistered client may send: a name, bare or padded with blanks
RegisterLines(c) == {TextLine(Names[k], pad) : k \in 1 .. c, pad \in BOOLEAN}
\* what a registered client may send: every command with the number of
\* arguments it declares, commands with too few or too many, an unknown
\* command, and a line of chat text
MessageLines ==
    {CommandLine(<<cmd>>) : cmd \in CommandNames \cup {"bogus"}}
    \cup {CommandLine(<<cmd, n>>) : cmd \in {"connect", "approve", "decline"}, n \in NameSet}
    \cup {CommandLine(<<cmd, Names[1]>>) : cmd \in {"clients", "disconnect"}}
    \cup {CommandLine(<<cmd, Names[1], Names[2]>>) : cmd \in {"connect", "approve", "decline"}}
    \cup {TextLine("hi", pad) : pad \in BOOLEAN}

Init ==
    /\ status = "constructed"
    /\ clients = {}
    /\ username = [c \in ClientIds |-> NoName]
    /\ closed = {}
    /\ accepted = 0
    /\ chats = {}
    /\ ready = <<>>
    /\ waitRead = EmptyTable
    /\ waitWrite = EmptyTable
    /\ frames = [t \in Tasks |-> NoFrame]
    /\ sent = NoMsg
    /\ received = NoLine

\* Server.run: register the accept task, enter the event loop
Run ==
    /\ status = "constructed"
    /\ status' = "running"
    /\ ready' = Append(ready, AcceptTask)
    /\ frames' = [frames EXCEPT ![AcceptTask] = NewFrame("spawn")]
    /\ UNCHANGED <<clients, username, closed, accepted, chats,
                   waitRead, waitWrite, sent, received>>

\* an exception leaves next(task), __run_task and __event_loop: the server
\* is down, with the task already popped from the ready queue
Raise(t) ==
    /\ status' = "crashed"
    /\ ready' = Tail(ready)
    /\ frames' = [frames EXCEPT ![t] = DoneFrame]
    /\ sent' = NoMsg
    /\ UNCHANGED <<clients, username, closed, accepted, chats, waitRead, waitWrite>>

\* mutant: a spawned task goes to the head of the ready queue
YieldSpawnsFirst(t, fr, kind, s, wr, ww, gone, spawned) ==
    LET lost == gone \cup (IF kind = READ THEN Lost(wr, s, t) ELSE Lost(ww, s, t))
    IN  /\ waitRead' = IF kind = READ THEN Install(wr, s, t) ELSE wr
        /\ waitWrite' = IF kind = WRITE THEN Install(ww, s, t) ELSE ww
        /\ ready' = spawned \o Tail(ready)
        /\ frames' = [x \in Tasks |->
               IF x = t THEN fr
               ELSE IF x \in lost THEN DroppedFrame
               ELSE IF \E k \in 1 .. Len(spawned) : spawned[k] = x THEN NewFrame("loop")
               ELSE frames[x]]

\* Server.__register_task for the tasks the running task spawned, and
\* Server.__run_task, lines 314-317, for what it yielded: task t, now with
\* frame fr, is stored under socket s in the table of its wait kind,
\* replacing the task stored there.  wr and ww are the waiting tables as the
\* step left them, gone the tasks they lost in the step.
Yield(t, fr, kind, s, wr, ww, gone, spawned) ==
    LET lost == gone \cup (IF kind = READ THEN Lost(wr, s, t) ELSE Lost(ww, s, t))
    IN  /\ waitRead' = IF kind = READ THEN Install(wr, s, t) ELSE wr
        /\ waitWrite' = IF kind = WRITE THEN Install(ww, s, t) ELSE ww
        /\ ready' = Tail(ready) \o spawned
        /\ frames' = [x \in Tasks |->
               IF x = t THEN fr
               ELSE IF x \in lost THEN DroppedFrame
               ELSE IF \E k \in 1 .. Len(spawned) : spawned[k] = x THEN NewFrame("loop")
               ELSE frames[x]]

\* Server.__run_task, lines 309-312: the generator returned, or raised
\* ClientDisconnected
Return(t, wr, ww, gone) ==
    /\ waitRead' = wr
    /\ waitWrite' = ww
    /\ ready' = Tail(ready)
    /\ frames' = [x \in Tasks |->
           IF x = t THEN DoneFrame ELSE IF x \in gone THEN DroppedFrame ELSE frames[x]]

\* Server.__event_loop, lines 323-337: with the ready queue empty, select()
\* on the two waiting tables and queue the tasks of the ready sockets, the
\* readers first.  select() raises ValueError on a closed socket.  The
\* listening socket is readable while a connection is still to come; a
\* client socket is readable when it has sent a line or has gone away, and
\* writable at the choice of the network.
PollEvents(P) ==
    /\ status = "running"
    /\ ready = <<>>
    /\ sent' = NoMsg
    /\ received' = NoLine
    /\ UNCHANGED <<clients, username, closed, accepted, chats, frames>>
    /\ IF DOMAIN waitRead = {} /\ DOMAIN waitWrite = {}
       THEN /\ status' = "exited"
            /\ UNCHANGED <<ready, waitRead, waitWrite>>
       ELSE IF (DOMAIN waitRead \cup DOMAIN waitWrite) \cap closed # {}
       THEN /\ status' = "crashed"
            /\ UNCHANGED <<ready, waitRead, waitWrite>>
       ELSE \E R \in SUBSET (DOMAIN waitRead), W \in SUBSET (DOMAIN waitWrite) :
              /\ R \cup W # {}
              /\ Cardinality(R) + Cardinality(W) <= P.ready
              /\ ListenSocket \in R => accepted < P.sessions
              /\ \E qr \in Orders(R), qw \in Orders(W) :
                   ready' = [k \in 1 .. Len(qr) |-> waitRead[qr[k]]]
                            \o [k \in 1 .. Len(qw) |-> waitWrite[qw[k]]]
              /\ waitRead' = [s \in (DOMAIN waitRead) \ R |-> waitRead[s]]
              /\ waitWrite' = [s \in (DOMAIN waitWrite) \ W |-> waitWrite[s]]
              /\ status' = status

\* __run_task on a generator resumed for the first time: each of the three
\* generators first yields (READ, its socket)
ResumeNew ==
    /\ status = "running"
    /\ ready # <<>>
    /\ LET t == Head(ready)
           s == IF t.kind = "accept" THEN ListenSocket ELSE t.client
       IN  /\ frames[t].pc = "new"
           /\ Yield(t, [frames[t] EXCEPT !.pc = "read"], READ, s,
                    waitRead, waitWrite, {}, <<>>)
    /\ sent' = NoMsg
    /\ received' = NoLine
    /\ UNCHANGED <<status, clients, username, closed, accepted, chats>>

\* Server.__handle_client_connection resumed after (READ, listening socket):
\* accept, __add_client, then yield (WRITE, client socket) for the greeting
ResumeAccept(P) ==
    /\ status = "running"
    /\ ready # <<>>
    /\ Head(ready) = AcceptTask
    /\ frames[AcceptTask].pc = "read"
    /\ accepted < P.sessions
    /\ LET c == accepted + 1
       IN  /\ accepted' = c
           /\ clients' = clients \cup {c}
           /\ Yield(AcceptTask,
                    [pc |-> "write", then |-> "spawn",
                     sends |-> <<Send(c, Msg("Hi! Write your username.", <<>>))>>],
                    WRITE, c, waitRead, waitWrite, {}, <<>>)
    /\ sent' = NoMsg
    /\ received' = NoLine
    /\ UNCHANGED <<status, username, closed, chats>>

\* a generator resumed after (READ, client socket) whose recv finds the
\* client gone: __receive_from_client_safe disconnects the client and raises
\* ClientDisconnected, which __run_task swallows
RecvFailure(t) ==
    LET d == DisconnectClient(t.client)
    IN  /\ chats' = d.chats
        /\ clients' = d.clients
        /\ closed' = d.closed
        /\ Return(t, d.waitRead, d.waitWrite, d.lost)
        /\ sent' = NoMsg
        /\ received' = NoLine
        /\ UNCHANGED <<status, username, accepted>>

\* Server.__handle_register_client resumed after (READ, client socket)
ResumeRegister(P) ==
    /\ status = "running"
    /\ ready # <<>>
    /\ LET t == Head(ready)
           c == t.client
       IN  /\ t.kind = "register"
           /\ frames[t].pc = "read"
           /\ IF c \in closed
              THEN Raise(t) /\ received' = NoLine
              ELSE \/ \E f \in P.recv : RecvFailure(t)
                   \/ /\ \E raw \in RegisterLines(c) \cap P.names :
                           /\ received' = Recv(c, raw)
                           /\ IF UsernameIsUsed(Strip(raw))
                              THEN /\ Yield(t, [pc |-> "write", then |-> "loop",
                                                sends |-> <<Send(c, Msg("Username is already in use, try another one:", <<>>))>>],
                                            WRITE, c, waitRead, waitWrite, {}, <<>>)
                                   /\ UNCHANGED username
                              ELSE /\ username' = [username EXCEPT ![c] = Strip(raw)]
                                   /\ Yield(t, [pc |-> "write", then |-> "stop",
                                                sends |-> ExecuteHelpSends(c)],
                                            WRITE, c, waitRead, waitWrite, {},
                                            <<MessageTask(c)>>)
                      /\ sent' = NoMsg
                      /\ UNCHANGED <<status, clients, closed, accepted, chats>>

\* Server.__handle_client_message resumed after (READ, client socket): one
\* line is received and handled up to the first yield of the handler
ResumeMessage(P) ==
    /\ status = "running"
    /\ ready # <<>>
    /\ LET t == Head(ready)
           c == t.client
       IN  /\ t.kind = "message"
           /\ frames[t].pc = "read"
           /\ IF c \in closed
              THEN Raise(t) /\ received' = NoLine
              ELSE \/ \E f \in P.recv : RecvFailure(t)
                   \/ /\ \E line \in P.lines[c] : \E o \in HandleLine(c, line) :
                           /\ Cardinality(o.chats) <= MaxChats
                           /\ received' = Recv(c, line)
                           /\ IF o.crash
                              THEN /\ Raise(t)
                              ELSE /\ chats' = o.chats
                                   /\ Yield(t, [pc |-> "write", then |-> "loop",
                                                sends |-> o.sends],
                                            WRITE, Head(o.sends).to,
                                            waitRead, waitWrite, {}, <<>>)
                                   /\ sent' = NoMsg
                                   /\ UNCHANGED <<status, clients, username, closed,
                                                  accepted>>

\* a generator resumed after (WRITE, socket) inside __send_message_to_client:
\* socket.send of the message; ConnectionResetError disconnects the receiver
\* and the generator goes on; send on a closed socket raises OSError.  The
\* generator then runs to its next yield: the next send of the handler, or
\* what follows the handler (the next read of the loop, the end of the
\* registration, the spawn of the registration task by the accept loop).
ResumeSend(P) ==
    /\ status = "running"
    /\ ready # <<>>
    /\ LET t == Head(ready)
           f == frames[t]
       IN  /\ f.pc = "write"
           /\ LET h == Head(f.sends)
                  rest == Tail(f.sends)
              IN  IF h.to \in closed
                  THEN Raise(t) /\ received' = NoLine
                  ELSE \E result \in P.send :
                    LET d == IF result = "reset" THEN DisconnectClient(h.to) ELSE Connected
                    IN  /\ sent' = IF result = "sent" THEN h ELSE NoMsg
                        /\ received' = NoLine
                        /\ chats' = d.chats
                        /\ clients' = d.clients
                        /\ closed' = d.closed
                        /\ UNCHANGED <<status, username, accepted>>
                        /\ IF rest # <<>>
                           THEN Yield(t, [f EXCEPT !.sends = rest], WRITE, Head(rest).to,
                                      d.waitRead, d.waitWrite, d.lost, <<>>)
                           ELSE CASE f.then = "loop" ->
                                     Yield(t, [pc |-> "read", then |-> "loop", sends |-> <<>>],
                                           READ, t.client,
                                           d.waitRead, d.waitWrite, d.lost, <<>>)
                                  [] f.then = "stop" ->
                                     Return(t, d.waitRead, d.waitWrite, d.lost)
                                  [] f.then = "spawn" ->
                                     Yield(t, [pc |-> "read", then |-> "spawn", sends |-> <<>>],
                                           READ, ListenSocket,
                                           d.waitRead, d.waitWrite, d.lost,
                                           <<RegisterTask(h.to)>>)

\* one iteration of the event loop, with the connections, the network's
\* behaviour and the lines of each client drawn from P
Step(P) ==
    \/ Run
    \/ PollEvents(P)
    \/ ResumeNew
    \/ ResumeAccept(P)
    \/ ResumeRegister(P)
    \/ ResumeMessage(P)
    \/ ResumeSend(P)

\* MaxSessions clients, sending any line and going away at any time
Sessions ==
    [sessions |-> MaxSessions, ready |-> MaxReady, recv |-> Failures,
     send |-> {"sent", "reset"}, lines |-> [c \in ClientIds |-> MessageLines],
     names |-> UNION {RegisterLines(c) : c \in ClientIds}]

Next == Step(Sessions)

Spec == Init /\ [][Next]_vars

\* three clients on a network that does not fail: the first sends requests
\* to the third, approves those of the second and ends its chat, the second
\* sends requests to the first, the third approves those of the first
Busy ==
    [sessions |-> MaxClients, ready |-> MaxReady, recv |-> {}, send |-> {"sent"},
     lines |-> [c \in ClientIds |->
                  CASE c = 1 -> {CommandLine(<<"connect", Names[3]>>),
                                 CommandLine(<<"approve", Names[2]>>),
                                 CommandLine(<<"disconnect">>)}
                    [] c = 2 -> {CommandLine(<<"connect", Names[1]>>)}
                    [] OTHER -> {CommandLine(<<"approve", Names[1]>>)}],
     names |-> {TextLine(Names[k], FALSE) : k \in ClientIds}]

NextBusy == Step(Busy)

SpecBusy == Init /\ [][NextBusy]_vars

\* three clients on a network that does not fail: the first two send
\* requests to the third, which asks for its requests and declines those of
\* the first
Asking ==
    [sessions |-> MaxClients, ready |-> MaxReady, recv |-> {}, send |-> {"sent"},
     lines |-> [c \in ClientIds |->
                  IF c = MaxClients
                  THEN {CommandLine(<<"requests">>), CommandLine(<<"decline", Names[1]>>)}
                  ELSE {CommandLine(<<"connect", Names[MaxClients]>>)}],
     names |-> {TextLine(Names[k], FALSE) : k \in ClientIds}]

NextAsking == Step(Asking)

SpecAsking == Init /\ [][NextAsking]_vars

\* ------------------------------------------------------------ properties
\* a generator that exists and has neither ended nor been dropped
Live(t) == frames[t].pc \in {"new", "read", "write"}
\* the message a suspended generator is waiting to write, NoMsg if none
Pending(t) == IF frames[t].pc = "write" THEN Head(frames[t].sends) ELSE NoMsg
ActiveChatsOf(c) ==
    {chat \in chats : chat.is_approved /\ (chat.initiator = c \/ chat.target = c)}
PendingChats(i, t) ==
    {chat \in chats : ~chat.is_approved /\ chat.initiator = i /\ chat.target = t}

\* C1 (P2, one active chat): in every reachable state every client is a
\* member of at most one chat whose is_approved flag is true.
C1_OneActiveChat == \A c \in ClientIds : Cardinality(ActiveChatsOf(c)) <= 1
\* an /approve was refused because its caller is in an active chat, while the
\* refused request is still pending
C1_Witness ==
    \E c \in ClientIds :
        /\ Pending(MessageTask(c)).msg.kind = "You already has an active chat with"
        /\ Cardinality(ActiveChatsOf(c)) = 1
        /\ \E chat \in chats : chat.target = c /\ ~chat.is_approved

\* C2 (P3, pending uniqueness): for every ordered pair of clients there is at
\* most one pending chat from the first to the second.
C2_PendingUnique ==
    \A i, t \in ClientIds : Cardinality(PendingChats(i, t)) <= 1

\* C3 (P1, name uniqueness): no two clients of the registry have the same
\* display name.
C3_NameUnique ==
    \A c, d \in clients :
        (c # d /\ username[c] # NoName) => username[c] # username[d]
\* a client proposed the name of a registered client and was refused, while
\* another client is still registering
C3_Witness ==
    \E c, d \in clients :
        /\ c # d
        /\ username[d] # NoName
        /\ received = Recv(c, TextLine(username[d], TRUE))
        /\ username[c] = NoName
        /\ Pending(RegisterTask(c)).msg.kind = "Username is already in use, try another one:"

\* C4 (P4, chats): no chat of the registry, pending or active, has a
\* disconnected client as its initiator or target.
C4_NoChatOfDisconnected ==
    \A chat \in chats : chat.initiator \notin closed /\ chat.target \notin closed
\* a client that was asked for a chat is gone while the request's notification
\* is still waiting to be written to it
C4_Witness ==
    \E t \in Tasks :
        /\ Pending(t).msg.kind = "wants to start a chat with you."
        /\ Pending(t).to \in closed
        /\ status = "running"

\* C5 (P4, scheduler): neither waiting table has an entry keyed by the socket
\* of a disconnected client.
C5_NoWaiterOnClosedSocket ==
    (DOMAIN waitRead \cup DOMAIN waitWrite) \cap closed = {}

\* C6: for each client at most one session task (registration or message
\* loop) is live at any moment, so the message loop is spawned only after the
\* registration task has ended.
C6_OneSessionTask ==
    \A c \in ClientIds : ~(Live(RegisterTask(c)) /\ Live(MessageTask(c)))

\* C7 (wrong arity): a known command with the wrong number of arguments gets
\* the one reply "Invalid command args.", the server keeps running and the
\* caller's task goes on to write that reply and read the next line.
WrongArity(line) ==
    /\ line.type = "command"
    /\ line.tokens # <<>>
    /\ Head(line.tokens) \in CommandNames
    /\ Len(line.tokens) - 1 # CommandArity[Head(line.tokens)]
C7_WrongArityReply ==
    \A c \in ClientIds :
        (received.from = c /\ WrongArity(received.line)) =>
            /\ status = "running"
            /\ frames[MessageTask(c)] =
                   [pc |-> "write", then |-> "loop",
                    sends |-> <<Send(c, Msg("Invalid command args.", <<>>))>>]

\* C8 (P5, no state change on error): a step in which a command is received
\* and answered with an error line leaves the clients, their names and the
\* chats as they were.
ErrorKinds ==
    {"Client is trying to connect to itself.", "You already in chat with",
     "Client may be disconnected.", "You are trying to approve a chat with yourself.",
     "You are trying to decline a chat with yourself.",
     "You already has an active chat with", "already has an active chat.",
     "Chat initiator may be disconnected.", "You have no chat request from",
     "You have no active chat now.", "Unknown command:"}
ErrorReplied(c) ==
    /\ received'.from = c
    /\ received'.line.type = "command"
    /\ Pending(MessageTask(c))'.msg.kind \in ErrorKinds
C8_ErrorLeavesRegistries ==
    [][\A c \in ClientIds : ErrorReplied(c) => UNCHANGED registries]_vars
\* a /connect was refused because its caller is in an active chat
C8_Witness ==
    \E c \in ClientIds :
        /\ received.from = c
        /\ received.line.type = "command"
        /\ Head(received.line.tokens) = "connect"
        /\ Pending(MessageTask(c)).msg.kind = "You already in chat with"

\* C9 (P6, approve): the task of an /approve that made a chat active writes
\* "You started a chat with <other>." to the initiator and to the target:
\* while such a line is waiting to be written to a connected client, the
\* task that holds it is not dropped.
C9_ApproveNotifiesBoth ==
    [][\A t \in Tasks :
          (/\ Pending(t).msg.kind = "You started a chat with"
           /\ Pending(t).to \in clients'
           /\ t.client \in clients'
           /\ status' = "running")
          => Live(t)']_vars

\* C10 (P6, disconnect): the task of a /disconnect that removed an active
\* chat writes "Chat with <other> ended." to both members: while such a line
\* is waiting to be written to a connected client, the task that holds it is
\* not dropped.
C10_DisconnectNotifiesBoth ==
    [][\A t \in Tasks :
          (/\ Pending(t).msg.kind = "Chat ended."
           /\ Pending(t).to \in clients'
           /\ t.client \in clients'
           /\ status' = "running")
          => Live(t)']_vars

\* the names a "Chat requests from:" reply enumerates
Listed(m) == {m.args[k] : k \in 1 .. Len(m.args)}
\* the chats that are requests to c: c is the target, not approved
RequestsTo(c) == {chat \in chats : chat.target = c /\ ~chat.is_approved}

\* C11 (/requests): the reply to /requests from client c enumerates exactly
\* the initiators of the chats with target c that are not approved; with no
\* such chat the reply is "You not have chat requests".
C11_RequestsListPending ==
    \A c \in ClientIds :
        (received = Recv(c, CommandLine(<<"requests">>)) /\ status = "running") =>
            LET m == Pending(MessageTask(c))
            IN  /\ m.to = c
                /\ IF RequestsTo(c) = {}
                   THEN m.msg = Msg("You not have chat requests", <<>>)
                   ELSE /\ m.msg.kind = "Chat requests from:"
                        /\ Listed(m.msg) = {username[chat.initiator] : chat \in RequestsTo(c)}

\* C12 (registration loop): for a line received from an unregistered client,
\* if the name is that of a client of the registry the client is answered
\* "Username is already in use, try another one:", stays unregistered, has no
\* message loop and its registration task loops; otherwise the name becomes
\* its username, the help text is its task's next write and its message loop
\* is spawned.  A username once assigned is never assigned again.
C12_RegistrationLoop ==
    [][/\ \A c \in ClientIds :
            LET t == RegisterTask(c)
                name == Strip(received'.line)
            IN  (/\ ready # <<>> /\ Head(ready) = t
                 /\ frames[t].pc = "read"
                 /\ received'.from = c)
                =>
                IF \E d \in clients : username[d] = name
                THEN /\ username' = username
                     /\ username[c] = NoName
                     /\ frames'[t] =
                          [pc |-> "write", then |-> "loop",
                           sends |-> <<Send(c, Msg("Username is already in use, try another one:", <<>>))>>]
                     /\ ~Live(MessageTask(c))'
                ELSE /\ username[c] = NoName
                     /\ username' = [username EXCEPT ![c] = name]
                     /\ Pending(t)' = Send(c, Msg("Avaliable commands:", <<>>))
                     /\ frames'[MessageTask(c)].pc = "new"
                     /\ ready'[Len(ready')] = MessageTask(c)
      /\ \A c \in ClientIds : username[c] # NoName => username'[c] = username[c]
     ]_vars
\* the second client has sent a free name, padded with blanks, while the
\* first is registered under another name
C12_Witness ==
    \E c, d \in clients :
        /\ c # d
        /\ username[d] \notin {NoName, username[c]}
        /\ \E n \in NameSet :
             /\ received = Recv(c, TextLine(n, TRUE))
             /\ username[c] = n
        /\ Pending(RegisterTask(c)).msg.kind = "Avaliable commands:"
        /\ frames[MessageTask(c)].pc = "new"

\* the step in which the message loop of c receives the given line
Receives(c, line) ==
    /\ ready # <<>> /\ Head(ready) = MessageTask(c)
    /\ frames[MessageTask(c)].pc = "read"
    /\ received' = Recv(c, line)
    /\ status' = "running"
\* the frame of a message loop that has one message left to write
Replying(to, m) == [pc |-> "write", then |-> "loop", sends |-> <<Send(to, m)>>]

Count(cs, i, t, a) ==
    Cardinality({x \in cs : x.initiator = i /\ x.target = t /\ x.is_approved = a})

TextRouted(c, line) ==
    IF ActiveChatsOf(c) # {}
    THEN \E chat \in ActiveChatsOf(c) :
            frames'[MessageTask(c)] =
              Replying(SecondMember(chat, c), Msg("chat", <<username[c], Strip(line)>>))
    ELSE frames'[MessageTask(c)] =
            Replying(c, Msg("You are not consistent with any chat.", <<>>))
\* the step disconnects a, and b, the other member of a's active chat, stays
PeerDisconnects(a, b) ==
    /\ a \in closed' \ closed
    /\ a # b
    /\ b \in clients'
    /\ \E chat \in ActiveChatsOf(a) : Members(chat) = {a, b}

\* C15 (chat text, S6): a line of chat text from a client with an active chat
\* is written only to the other member, prefixed with the sender's name; from
\* a client with no active chat it is answered "You are not consistent with
\* any chat." and forwarded to nobody.  When the other member of b's active
\* chat is disconnected, b's session goes on being served: its message loop
\* is still held by the scheduler.
C15_TextRouting ==
    [][/\ \A c \in ClientIds : \A pad \in BOOLEAN :
            Receives(c, TextLine("hi", pad)) => TextRouted(c, TextLine("hi", pad))
       /\ \A a, b \in ClientIds :
            PeerDisconnects(a, b) => Live(MessageTask(b))'
      ]_vars

\* C16 (socket closed once): the socket of a client is closed by the one
\* step that detects its transport failure, and the session task of the
\* client that detects it (its read finds the client gone, or its own write
\* to the client is reset) terminates in that step.
C16_DetectingTaskEnds ==
    [][\A t \in Tasks :
          (/\ t.client \in closed' \ closed
           /\ ready # <<>>
           /\ Head(ready) = t)
          => ~Live(t)'
      ]_vars

\* C17 (unknown command): a command line whose first token is not a command
\* name leaves the clients, their names and the chats as they were, and the
\* caller's message loop has the one reply "Unknown command: <raw>." to write
\* to the caller before it reads the next line.
C17_UnknownCommand ==
    [][\A c \in ClientIds : \A line \in MessageLines :
          (/\ Receives(c, line)
           /\ line.type = "command"
           /\ Head(line.tokens) \notin CommandNames)
          => /\ UNCHANGED registries
             /\ frames'[MessageTask(c)] =
                  Replying(c, Msg("Unknown command:", <<Head(line.tokens)>>))
      ]_vars
\* an unknown command has just been received from a client that has a chat
C17_Witness ==
    \E c \in clients :
        /\ received = Recv(c, CommandLine(<<"bogus">>))
        /\ Pending(MessageTask(c)) = Send(c, Msg("Unknown command:", <<"bogus">>))
        /\ \E chat \in chats : c \in Members(chat)

\* every count of chats but those of the listed <<initiator, target, flag>>
\* triples is the same after the step
OtherCountsKept(changed) ==
    \A x, y \in ClientIds : \A a \in BOOLEAN :
        <<x, y, a>> \notin changed => Count(chats', x, y, a) = Count(chats, x, y, a)

\* C18 (/approve, busy initiator): an /approve naming a client i that is in
\* an active chat, by a caller t that is in none, is answered "<i> already has
\* an active chat." and leaves every chat as it is, the request of i to t
\* included; a /disconnect removes the caller's active chat and no request;
\* and an /approve by t naming i when neither is in an active chat and a
\* request of i to t is pending makes one such request active and queues the
\* two notifications.  So the refused request is still there when i's chat
\* has been ended, and the repeated /approve makes it active.
C18_ApproveBusyInitiator ==
    [][/\ \A t \in ClientIds : \A n \in NameSet :
            Receives(t, CommandLine(<<"approve", n>>)) =>
              \A i \in clients \ {t} :
                (username[i] = n /\ ActiveChatsOf(t) = {}) =>
                  IF ActiveChatsOf(i) # {}
                  THEN /\ chats' = chats
                       /\ frames'[MessageTask(t)] =
                            Replying(t, Msg("already has an active chat.", <<n>>))
                  ELSE PendingChats(i, t) # {} =>
                       /\ Count(chats', i, t, FALSE) = Count(chats, i, t, FALSE) - 1
                       /\ Count(chats', i, t, TRUE) = 1
                       /\ OtherCountsKept({<<i, t, FALSE>>, <<i, t, TRUE>>})
                       /\ frames'[MessageTask(t)] =
                            [pc |-> "write", then |-> "loop",
                             sends |-> <<Send(i, Msg("You started a chat with", <<username[t]>>)),
                                         Send(t, Msg("You started a chat with", <<n>>))>>]
       /\ \A c \in ClientIds :
            (Receives(c, CommandLine(<<"disconnect">>)) /\ ActiveChatsOf(c) # {}) =>
              /\ Cardinality(chats') = Cardinality(chats) - 1
              /\ ActiveChatsOf(c)' = {}
              /\ \A x, y \in ClientIds :
                   Count(chats', x, y, FALSE) = Count(chats, x, y, FALSE)
      ]_vars
\* an /approve has just been refused because the initiator is in an active
\* chat with a third client, and the request is still pending
C18_Witness ==
    \E t, i, x \in clients :
        /\ t # i /\ x # t /\ x # i
        /\ received = Recv(t, CommandLine(<<"approve", username[i]>>))
        /\ Pending(MessageTask(t)) =
              Send(t, Msg("already has an active chat.", <<username[i]>>))
        /\ PendingChats(i, t) # {}
        /\ \E chat \in ActiveChatsOf(i) : Members(chat) = {i, x}

\* C19 (disconnect scrub): every task that the disconnect of a client x
\* removes from the read and write waiting tables is a session task of x; the
\* task of another client, parked to write to x's socket, is not among them.
C19_ScrubOwnTasksOnly ==
    [][\A x \in ClientIds :
          x \in closed' \ closed =>
             \A t \in DisconnectClient(x).lost : t.client = x
      ]_vars

\* where the scheduler holds task t: positions of the ready queue and keys
\* of the waiting tables
InReady(t) == {k \in 1 .. Len(ready) : ready[k] = t}
InRead(t) == {s \in DOMAIN waitRead : waitRead[s] = t}
InWrite(t) == {s \in DOMAIN waitWrite : waitWrite[s] = t}
\* the socket a suspended generator has yielded, by its wait kind
YieldedRead(t) == IF t.kind = "accept" THEN ListenSocket ELSE t.client
YieldedWrite(t) == Head(frames[t].sends).to
\* a task that is held is held once: on the ready queue, or in the table of
\* the kind it yielded under the socket it yielded
HeldWhereYielded(t) ==
    /\ Cardinality(InReady(t)) + Cardinality(InRead(t)) + Cardinality(InWrite(t)) <= 1
    /\ InRead(t) # {} => frames[t].pc = "read" /\ InRead(t) = {YieldedRead(t)}
    /\ InWrite(t) # {} => frames[t].pc = "write" /\ InWrite(t) = {YieldedWrite(t)}
    /\ ~Live(t) => InReady(t) = {} /\ InRead(t) = {} /\ InWrite(t) = {}

\* C20 (scheduler step): a step with a task on the ready queue pops the head
\* and resumes it once: the rest of the queue keeps its order, what is added
\* is added at the tail and is a task created in the step and not yet
\* resumed, the resumed task is not queued again, and if it is still live it
\* is in the table of the kind it yielded under the socket it yielded.  A
\* task goes from a waiting table to the ready queue only in a step that
\* starts with the ready queue empty (the select() call), and that step
\* resumes nothing.
C20_SchedulerStep ==
    [][/\ \A t \in Tasks : HeldWhereYielded(t)'
       /\ (status = "running" /\ ready # <<>>) =>
            /\ Len(ready') >= Len(ready) - 1
            /\ SubSeq(ready', 1, Len(ready) - 1) = Tail(ready)
            /\ \A k \in Len(ready) .. Len(ready') :
                 /\ ~Live(ready'[k])
                 /\ frames'[ready'[k]].pc = "new"
            /\ \A t \in Tasks :
                 Head(ready) = t =>
                   /\ InReady(t)' = {}
                   /\ (Live(t)' /\ status' = "running") =>
                         InRead(t)' \cup InWrite(t)' # {}
       /\ \A t \in Tasks :
            (InRead(t) \cup InWrite(t) # {} /\ InReady(t)' # {}) =>
               /\ ready = <<>>
               /\ frames' = frames
               /\ InRead(t)' \cup InWrite(t)' = {}
      ]_vars
\* a registration task has just spawned the message loop behind a task that
\* was already queued, and waits to write
C20_Witness ==
    \E c \in clients : \E t \in Tasks :
        /\ ready = <<t, MessageTask(c)>>
        /\ t.client # c
        /\ frames[MessageTask(c)].pc = "new"
        /\ InWrite(RegisterTask(c)) = {c}

\* C21 (program order of writes): the messages a task has to write are
\* written one per resumption, in the order its code issues them: a
\* /disconnect issues the initiator's "Chat with <other> ended." before the
\* target's; the message a resumed task writes is the first of those it has
\* left, the others stay in their order, and no step changes what a task
\* that is not resumed has left to write, unless it drops the task.
C21_WritesInProgramOrder ==
    [][/\ \A c \in ClientIds :
            (Receives(c, CommandLine(<<"disconnect">>)) /\ ActiveChatsOf(c) # {}) =>
               \E chat \in ActiveChatsOf(c) :
                  frames'[MessageTask(c)].sends =
                     <<Send(chat.initiator, Msg("Chat ended.", <<username[chat.target]>>)),
                       Send(chat.target, Msg("Chat ended.", <<username[chat.initiator]>>))>>
       /\ \A t \in Tasks :
            (ready # <<>> /\ Head(ready) = t /\ frames[t].pc = "write"
             /\ status' = "running") =>
               /\ sent' \in {NoMsg, Head(frames[t].sends)}
               /\ Len(frames[t].sends) > 1 =>
                    /\ frames'[t].pc = "write"
                    /\ frames'[t].sends = Tail(frames[t].sends)
       /\ \A t \in Tasks :
            (Live(t) /\ Live(t)' /\ ~(ready # <<>> /\ Head(ready) = t)) =>
               frames'[t] = frames[t]
       /\ sent' # NoMsg => ready # <<>> /\ frames[Head(ready)].pc = "write"
      ]_vars
\* a /disconnect task has written the initiator's notification and waits to
\* write the target's
C21_Witness ==
    \E c, i, t \in clients :
        /\ i # t
        /\ c \in {i, t}
        /\ sent = Send(i, Msg("Chat ended.", <<username[t]>>))
        /\ Pending(MessageTask(c)) = Send(t, Msg("Chat ended.", <<username[i]>>))
        /\ InWrite(MessageTask(c)) = {t}

\* the chats of cs in the order of their creation
ByCreation(cs) ==
    [k \in 1 .. Cardinality(cs) |->
        CHOOSE chat \in cs : Cardinality({x \in cs : x.id <= chat.id}) = k]

\* C22 (/requests order): the "Chat requests from:" reply to client c lists
\* the initiators of the chats with target c in the order in which the chats
\* were created.
C22_RequestsInCreationOrder ==
    \A c \in ClientIds :
        (/\ received = Recv(c, CommandLine(<<"requests">>))
         /\ status = "running"
         /\ Pending(MessageTask(c)).msg.kind = "Chat requests from:")
        =>
        LET q == ByCreation({chat \in chats : chat.target = c})
        IN  Pending(MessageTask(c)).msg.args = [k \in 1 .. Len(q) |-> username[q[k].initiator]]

C24_MembersDistinct == \A chat \in chats : chat.initiator # chat.target
\* a client has just sent /connect with its own name and is refused, while
\* it has a request to another client pending
C24_Witness ==
    \E c \in clients :
        /\ received = Recv(c, CommandLine(<<"connect", username[c]>>))
        /\ Pending(MessageTask(c)) =
              Send(c, Msg("Client is trying to connect to itself.", <<>>))
        /\ \E chat \in chats : chat.initiator = c

\* C25 (no session task is lost): while the server runs, the message loop of
\* every registered client of the registry is held by the scheduler, on the
\* ready queue or in a waiting table: a task that yields a socket another
\* task is waiting for does not discard that task.
C25_NoSessionTaskLost ==
    \A c \in clients :
        (username[c] # NoName /\ status = "running") =>
            /\ Live(MessageTask(c))
            /\ InReady(MessageTask(c)) # {}
               \/ InRead(MessageTask(c)) # {}
               \/ InWrite(MessageTask(c)) # {}

\* C26 (no chat text after the end of a chat): when a forwarded line
\* "<sender>: <text>" has just been written to a client, there is an active
\* chat whose members are the sender and that client.
C26_NoTextAfterChatEnd ==
    sent.msg.kind = "chat" =>
        \E chat \in chats :
            /\ chat.is_approved
            /\ sent.to \in Members(chat)
            /\ username[SecondMember(chat, sent.to)] = sent.msg.args[1]
            /\ SecondMember(chat, sent.to) # sent.to

\* C27 (the accept task is never lost): once run has started, the event loop
\* is running and the accept task is held by the scheduler, on the ready
\* queue, in the read table under the listening socket or in the write table
\* under the socket of the client it is greeting; nothing a client does
\* stops the server from accepting later connections.
C27_AcceptTaskHeld ==
    status # "constructed" =>
        /\ status = "running"
        /\ Live(AcceptTask)
        /\ \/ InReady(AcceptTask) # {}
           \/ InRead(AcceptTask) = {ListenSocket}
           \/ InWrite(AcceptTask) = {accepted}
====
